---- MODULE Spec2Model ----
(***************************************************************************)
(* worker-logs: the gateway (src/src/index.ts), the RPC entrypoint         *)
(* (src/src/rpc.ts) and the per-tenant storage actor AppLogsDO they call.  *)
(*                                                                         *)
(* Timestamps are ISO-8601 strings of one fixed format; they are modelled  *)
(* as positive integers whose order is the strings' lexical order.  0 is   *)
(* "no timestamp given" and -1 a string that does not parse as a date.     *)
(***************************************************************************)
EXTENDS Integers, Sequences, FiniteSets, TLC

\* ------------------------------------------------------------------ bounds
Apps == {"a", "b", "c"}
WriteApps == {"a", "b"}
Procs == {1, 2}
MaxTime == 3
TicksPerDay == 2
MaxReqs == 2

Times == 1..MaxTime
DateOf(t) == t \div TicksPerDay
Dates == {DateOf(t) : t \in Times}

\* ------------------------------------------------------- storage actor
\* CHECK (level IN ('DEBUG', 'INFO', 'WARN', 'ERROR'))
Levels == {"DEBUG", "INFO", "WARN", "ERROR"}

\* a LogInput of a caller; timestamp 0 is "not given"; the callers of the model
\* give no request_id
In(level, timestamp) == [level |-> level, timestamp |-> timestamp]

\* env.APP_LOGS_DO.idFromName(appId): the id of the one actor named appId
idFromName(name) == <<"APP_LOGS_DO", name>>

getAppDO_shared(appId) == idFromName("a")

\* LogsRPC.getAppDO
getAppDO(appId) == idFromName(appId)

\* getAppDO(c.env, appId) of ./utils, used by the gateway
utilsGetAppDO(appId) == idFromName(appId)

Actors == {idFromName(a) : a \in Apps}

\* counters exist from their first increment
ZeroStats == <<>>

Count(st, d, l) == IF <<d, l>> \in DOMAIN st THEN st[<<d, l>>] ELSE 0

\* a row of the logs table; dest, rid and at are history fields: the app the
\* write was addressed to, <<request, entries in the request>>, and the time
\* the actor stored the row
Row(id, input, t, dest, rid) ==
  [id |-> id,
   timestamp |-> IF input.timestamp = 0 THEN t ELSE input.timestamp,
   level |-> input.level, request_id |-> "", dest |-> dest, rid |-> rid, at |-> t]

RowsOf(id, entries, t, dest, rid) ==
  [i \in 1..Len(entries) |-> Row(id + i - 1, entries[i], t, dest, rid)]

\* writeLog / writeLogBatch: every level is validated; all rows or none
ValidEntries(entries) == \A i \in 1..Len(entries) : entries[i].level \in Levels

writeLog(rows, entry, id, t, dest, rid) ==
  IF entry.level \in Levels THEN Append(rows, Row(id, entry, t, dest, rid)) ELSE rows

writeLogBatch(rows, entries, id, t, dest, rid) ==
  IF ValidEntries(entries) THEN rows \o RowsOf(id, entries, t, dest, rid) ELSE rows

\* queryLogs: ORDER BY timestamp DESC; rows of one timestamp stay in
\* insertion order
RECURSIVE InsertDesc(_, _)
InsertDesc(sorted, r) ==
  IF sorted = <<>> THEN <<r>>
  ELSE IF Head(sorted).timestamp >= r.timestamp
       THEN <<Head(sorted)>> \o InsertDesc(Tail(sorted), r)
       ELSE <<r>> \o sorted

RECURSIVE InsertAllDesc(_)
InsertAllDesc(rows) ==
  IF rows = <<>> THEN <<>>
  ELSE InsertDesc(InsertAllDesc(SubSeq(rows, 1, Len(rows) - 1)), rows[Len(rows)])

\* the same order without recursion: row k comes after the rows with a
\* larger timestamp and the earlier rows with the same timestamp
RankDesc(rows) ==
  LET n == Len(rows)
      Before(j, k) == \/ rows[j].timestamp > rows[k].timestamp
                      \/ rows[j].timestamp = rows[k].timestamp /\ j < k
      rank == [k \in 1..n |-> Cardinality({j \in 1..n : Before(j, k)})]
  IN  [p \in 1..n |-> rows[CHOOSE k \in 1..n : rank[k] = p - 1]]

\* long lists are ordered without recursion
SortDesc(rows) == IF Len(rows) <= 32 THEN InsertAllDesc(rows) ELSE RankDesc(rows)

Min(x, y) == IF x <= y THEN x ELSE y
Max(x, y) == IF x >= y THEN x ELSE y

\* the page [offset, offset + limit) of a list
Page(s, offset, limit) == SubSeq(s, offset + 1, Min(Len(s), offset + limit))

\* default page size of queryLogs
DefaultLimit == 100

\* filters of queryLogs; "" and 0 are "not given"
NoFilters == [level |-> "", since |-> 0, until |-> 0, request_id |-> "", limit |-> 0,
              offset |-> 0]

Matches(r, f) ==
  /\ f.level = "" \/ r.level = f.level
  /\ f.since = 0 \/ r.timestamp >= f.since
  /\ f.until = 0 \/ r.timestamp < f.until
  /\ f.request_id = "" \/ r.request_id = f.request_id

\* queryLogs caps the limit it is given; the cap is not stated, and is taken
\* as the least that leaves the default page whole
MaxLimit == 100

queryLogs(rows, f) ==
  Page(SortDesc(SelectSeq(rows, LAMBDA r : Matches(r, f))), f.offset,
       IF f.limit = 0 THEN DefaultLimit ELSE Min(f.limit, MaxLimit))

\* pruneLogs: DELETE FROM logs WHERE timestamp < before
pruneLogs_inclusive(rows, before) ==
  SelectSeq(rows, LAMBDA r : ~(r.timestamp <= before))

pruneLogs(rows, before) == SelectSeq(rows, LAMBDA r : ~(r.timestamp < before))

\* countByLevel / the reduce of logBatch: entries per level
CountLevel(entries, l) == Cardinality({i \in 1..Len(entries) : entries[i].level = l})

\* entries.reduce((acc, log) => ...): the item of log.level is incremented
\* when acc holds one, else { level, count: 1 } is pushed
RECURSIVE reduceCounts(_, _)
reduceCounts(acc, entries) ==
  IF entries = <<>> THEN acc
  ELSE LET log == Head(entries)
           found == {i \in DOMAIN acc : acc[i].level = log.level}
       IN  IF found # {}
           THEN LET existing == CHOOSE i \in found : \A j \in found : i <= j
                IN  reduceCounts([acc EXCEPT ![existing].count = @ + 1], Tail(entries))
           ELSE reduceCounts(Append(acc, [level |-> log.level, count |-> 1]),
                             Tail(entries))

\* the counts of LogsRPC.logBatch
batchCounts(entries) == reduceCounts(<<>>, entries)

\* countByLevel(body.logs) of ./utils: one { level, count } per level
countByLevel(entries) == reduceCounts(<<>>, entries)

\* the counters after the increments of one write, recorded on date d
AddCounts(st, d, entries) ==
  [e \in DOMAIN st \cup {<<d, entries[i].level>> : i \in 1..Len(entries)} |->
     Count(st, e[1], e[2]) + (IF e[1] = d THEN CountLevel(entries, e[2]) ELSE 0)]

\* ------------------------------------------------------------ state
VARIABLES
  logs,          \* actor id -> rows of its logs table, in insertion order
  doStats,       \* actor id -> counters (date, level) kept by the actor
  kvStats,       \* app id -> counters (date, level) kept in LOGS_KV
  kvConfigured,  \* whether env.LOGS_KV is bound
  now,           \* the clock
  nextId,        \* next row id
  issued,        \* number of write requests started so far
  procs,         \* in-flight write handlers
  accepted,      \* history: app id -> entries persisted per (date written, level)
  registry,      \* the app ids registry.listApps finds in LOGS_KV
  agg,           \* the handler of the all-tenants GET /logs
  sched,         \* actor id -> its health-check scheduler
  health         \* actor id -> rows of its health_checks table

vars == <<logs, doStats, kvStats, kvConfigured, now, nextId, issued, procs, accepted,
          registry, agg, sched, health>>

aggVars == <<registry, agg>>

healthVars == <<sched, health>>

\* the scheduler of an actor nobody configured: no URLs, no alarm set (due 0);
\* abandonedAt is a history field: when a cycle was last given up (0: never)
NoSched == [state |-> "Idle", urls |-> <<>>, due |-> 0, retryCount |-> 0,
            abandonedAt |-> 0]

NoParams == [limit |-> <<>>, offset |-> <<>>, level |-> "", since |-> 0, until |-> 0,
             request_id |-> ""]

\* params: the caller's query string; query: the one sent to every tenant;
\* settled, results: per tenant of appIds, how its fetch ended and what its
\* promise resolved to; status, data: the answer
AggIdle == [pc |-> "idle", params |-> NoParams, globalLimit |-> 0, query |-> NoParams,
            appIds |-> <<>>, settled |-> <<>>, results |-> <<>>, threw |-> FALSE,
            status |-> 0, data |-> <<>>]

\* ops is a history field: the increment operations the handler issued, each
\* the list of { level, count } it carried
Idle == [pc |-> "idle", via |-> "none", app |-> "a", entries |-> <<>>,
         batch |-> FALSE, rid |-> 0, stored |-> FALSE, counted |-> FALSE,
         resp |-> "none", ops |-> <<>>]

Init ==
  /\ logs = [d \in Actors |-> <<>>]
  /\ doStats = [d \in Actors |-> ZeroStats]
  /\ kvStats = [a \in Apps |-> ZeroStats]
  /\ kvConfigured \in BOOLEAN
  /\ now = 1
  /\ nextId = 1
  /\ issued = 0
  /\ procs = [p \in Procs |-> Idle]
  /\ accepted = [a \in Apps |-> ZeroStats]
  /\ registry = <<"a", "b">>
  /\ agg = AggIdle
  /\ sched = [d \in Actors |-> NoSched]
  /\ health = [d \in Actors |-> <<>>]

Tick ==
  /\ now < MaxTime
  /\ now' = now + 1
  /\ UNCHANGED <<logs, doStats, kvStats, kvConfigured, nextId, issued, procs,
                 accepted, aggVars, healthVars>>

\* the actor's answer to POST /log (one entry) and POST /logs (a batch):
\* the rows after it, and whether it answered ok
ActorWrite(rows, entries, batch, id, t, dest, rid) ==
  [ok |-> ValidEntries(entries),
   rows |-> IF batch THEN writeLogBatch(rows, entries, id, t, dest, rid)
            ELSE writeLog(rows, entries[1], id, t, dest, rid)]

\* the requests a write handler sends to the actor, each a list of entries
ActorRequests_perEntry(entries, batch) == [i \in 1..Len(entries) |-> <<entries[i]>>]

\* one fetch of /log or /logs carrying JSON.stringify(body)
ActorRequests(entries, batch) == <<entries>>

\* the actor handles the requests in order; the handler reads the last answer
RECURSIVE SendAll(_, _, _, _, _, _, _)
SendAll(rows, reqs, batch, id, t, dest, rid) ==
  IF Len(reqs) = 1 THEN ActorWrite(rows, reqs[1], batch, id, t, dest, rid)
  ELSE LET w == ActorWrite(rows, reqs[1], batch, id, t, dest, rid)
       IN  SendAll(w.rows, Tail(reqs), batch, id + (Len(w.rows) - Len(rows)), t, dest, rid)

gatewayCounts_always(ok) == TRUE

\* app.post('/logs'): "if (result.ok)" before the fetch of /stats
gatewayCounts(ok) == ok

\* app.post('/logs') up to "const result = await res.json()"
PostLogs(p, appId, entries, batch) ==
  /\ procs[p].pc = "idle"
  /\ issued < MaxReqs
  /\ LET d == utilsGetAppDO(appId)
         w == SendAll(logs[d], ActorRequests(entries, batch), batch, nextId, now,
                      appId, <<issued + 1, Len(entries)>>)
     IN  /\ logs' = [logs EXCEPT ![d] = w.rows]
         /\ nextId' = nextId + (Len(w.rows) - Len(logs[d]))
         /\ accepted' = IF w.ok
                        THEN [accepted EXCEPT ![appId] = AddCounts(@, DateOf(now), entries)]
                        ELSE accepted
         /\ procs' = [procs EXCEPT ![p] =
               [pc |-> IF gatewayCounts(w.ok) THEN "stats" ELSE "done",
                via |-> "gateway", app |-> appId, entries |-> entries,
                batch |-> batch, rid |-> issued + 1,
                stored |-> Len(w.rows) > Len(logs[d]), counted |-> FALSE,
                resp |-> IF w.ok THEN "none" ELSE "err", ops |-> <<>>]]
  /\ issued' = issued + 1
  /\ UNCHANGED <<doStats, kvStats, kvConfigured, now, aggVars, healthVars>>

\* app.post('/logs'): "if (result.ok) await stub.fetch(.../stats)", then
\* "return c.json(result)"; the answer of /stats is not read
PostLogsStats(p) ==
  /\ procs[p].pc = "stats"
  /\ procs[p].via = "gateway"
  /\ \E outcome \in {"ok", "err", "throw"} :
       LET d == utilsGetAppDO(procs[p].app)
       IN  /\ doStats' = IF outcome = "ok"
                         THEN [doStats EXCEPT ![d] =
                                 AddCounts(@, DateOf(now), procs[p].entries)]
                         ELSE doStats
           /\ procs' = [procs EXCEPT ![p].pc = "done",
                                     ![p].counted = (outcome = "ok"),
                                     ![p].resp = IF outcome = "throw" THEN "throw" ELSE "ok",
                                     ![p].ops = Append(@,
                                        IF procs[p].batch
                                        THEN countByLevel(procs[p].entries)
                                        ELSE <<[level |-> procs[p].entries[1].level,
                                                count |-> 1]>>)]
  /\ UNCHANGED <<logs, kvStats, kvConfigured, now, nextId, issued, accepted, aggVars, healthVars>>

\* LogsRPC.log / logBatch: "if (result.ok && this.env.LOGS_KV)"
rpcCounts(ok, kv) == ok /\ kv

\* LogsRPC.log / LogsRPC.logBatch up to "const result = await res.json()";
\* without LOGS_KV the method returns result.data at once
RpcLog(p, appId, entries, batch) ==
  /\ procs[p].pc = "idle"
  /\ issued < MaxReqs
  /\ LET d == getAppDO(appId)
         w == SendAll(logs[d], ActorRequests(entries, batch), batch, nextId, now,
                      appId, <<issued + 1, Len(entries)>>)
         more == rpcCounts(w.ok, kvConfigured)
     IN  /\ logs' = [logs EXCEPT ![d] = w.rows]
         /\ nextId' = nextId + (Len(w.rows) - Len(logs[d]))
         /\ accepted' = IF w.ok
                        THEN [accepted EXCEPT ![appId] = AddCounts(@, DateOf(now), entries)]
                        ELSE accepted
         /\ procs' = [procs EXCEPT ![p] =
               [pc |-> IF more THEN "stats" ELSE "done",
                via |-> "rpc", app |-> appId, entries |-> entries,
                batch |-> batch, rid |-> issued + 1,
                stored |-> Len(w.rows) > Len(logs[d]), counted |-> FALSE,
                resp |-> IF more THEN "none" ELSE IF w.ok THEN "ok" ELSE "undefined",
                ops |-> <<>>]]
  /\ issued' = issued + 1
  /\ UNCHANGED <<doStats, kvStats, kvConfigured, now, aggVars, healthVars>>

\* LogsRPC.log / logBatch: "await stats.incrementStats(...)" or
\* "await stats.incrementStatsBatch(...)", then "return result.data"
RpcStats(p) ==
  /\ procs[p].pc = "stats"
  /\ procs[p].via = "rpc"
  /\ \E outcome \in {"ok", "err", "throw"} :
       /\ kvStats' = IF outcome = "ok"
                     THEN [kvStats EXCEPT ![procs[p].app] =
                             AddCounts(@, DateOf(now), procs[p].entries)]
                     ELSE kvStats
       /\ procs' = [procs EXCEPT ![p].pc = "done",
                                 ![p].counted = (outcome = "ok"),
                                 ![p].resp = IF outcome = "throw" THEN "throw" ELSE "ok",
                                 ![p].ops = Append(@,
                                    IF procs[p].batch
                                    THEN batchCounts(procs[p].entries)
                                    ELSE <<[level |-> procs[p].entries[1].level,
                                            count |-> 1]>>)]
  /\ UNCHANGED <<logs, doStats, kvConfigured, now, nextId, issued, accepted, aggVars, healthVars>>

\* the caller has its answer; the handler is gone
Return(p) ==
  /\ procs[p].pc = "done"
  /\ procs' = [procs EXCEPT ![p] = Idle]
  /\ UNCHANGED <<logs, doStats, kvStats, kvConfigured, now, nextId, issued,
                 accepted, aggVars, healthVars>>

actorPrune_noValidation(rows, before) ==
  LET kept == IF before = -1 THEN <<>> ELSE pruneLogs(rows, before)
  IN  [ok |-> TRUE, code |-> "", rows |-> kept, deleted |-> Len(rows) - Len(kept)]

\* the actor's POST /prune: a "before" that is absent (0) or does not parse
\* as a date (-1) is a validation error and deletes nothing
actorPrune(rows, before) ==
  IF before <= 0
  THEN [ok |-> FALSE, code |-> "VALIDATION_ERROR", rows |-> rows, deleted |-> 0]
  ELSE [ok |-> TRUE, code |-> "", rows |-> pruneLogs(rows, before),
        deleted |-> Len(rows) - Len(pruneLogs(rows, before))]

\* app.post('/apps/:app_id/prune'); the actor rejects a "before" that
\* does not parse (-1) with a ValidationError and deletes nothing
PostPrune(appId, authenticatedAppId, before) ==
  /\ appId = authenticatedAppId
  /\ before # 0
  /\ LET d == utilsGetAppDO(appId)
         rows == actorPrune(logs[d], before).rows
     IN  logs' = [logs EXCEPT ![d] = rows]
  /\ UNCHANGED <<doStats, kvStats, kvConfigured, now, nextId, issued, procs, accepted,
                 aggVars, healthVars>>

\* what app.post('/apps/:app_id/prune') answers: 403 on an app id mismatch,
\* 400 without "before", else the actor's answer (sent on with c.json, so
\* with status 200 whatever it says)
PruneAnswer(appId, authenticatedAppId, before) ==
  IF appId # authenticatedAppId
  THEN [status |-> 403, ok |-> FALSE, code |-> "UNAUTHORIZED", deleted |-> 0]
  ELSE IF before = 0
  THEN [status |-> 400, ok |-> FALSE, code |-> "BAD_REQUEST", deleted |-> 0]
  ELSE LET r == actorPrune(logs[utilsGetAppDO(appId)], before)
       IN  [status |-> 200, ok |-> r.ok, code |-> r.code, deleted |-> r.deleted]

\* ------------------------------------------------------ read routes
\* getStats(days): the counters of the last `days` days, zero-filled
getStats(st, today, days) ==
  [e \in ((today - days + 1)..today) \X Levels |-> Count(st, e[1], e[2])]

\* default of the days parameter
DefaultDays == 7

\* app.get('/stats/:app_id'): 403 on an app id mismatch, else the actor's answer
GetStats(appId, authenticatedAppId, days) ==
  IF authenticatedAppId # "" /\ appId # authenticatedAppId
  THEN [ok |-> FALSE, data |-> <<>>]
  ELSE [ok |-> TRUE,
        data |-> getStats(doStats[utilsGetAppDO(appId)], DateOf(now), days)]

\* LogsRPC.getStats: [] without LOGS_KV, else stats.getStatsRange of LOGS_KV
RpcGetStats(appId, days) ==
  IF ~kvConfigured THEN <<>> ELSE getStats(kvStats[appId], DateOf(now), days)

\* the count a getStats answer reports for (date, level)
Reported(data, d, l) == IF <<d, l>> \in DOMAIN data THEN data[<<d, l>>] ELSE 0

\* app.get('/logs') with an app id: the query string goes to the actor as is
GetLogs(appId, params) ==
  [ok |-> TRUE, data |-> queryLogs(logs[utilsGetAppDO(appId)], params)]

QueryParams_noLimit(filters) ==
  [level |-> filters.level, since |-> filters.since, until |-> filters.until,
   request_id |-> filters.request_id, limit |-> 0, offset |-> filters.offset]

\* LogsRPC.query: every filter that is given is set in the query string
QueryParams(filters) ==
  [level |-> filters.level, since |-> filters.since, until |-> filters.until,
   request_id |-> filters.request_id, limit |-> filters.limit, offset |-> filters.offset]

\* LogsRPC.query: result.data
query(appId, filters) == queryLogs(logs[getAppDO(appId)], QueryParams(filters))

\* ---------------------------------------------- the write and stats paths
\* the bodies the callers of Spec send: one LogInput, or { logs: [...] }
WriteBodies ==
  { [entries |-> <<In("INFO", 0)>>, batch |-> FALSE],
    [entries |-> <<In("TRACE", 0)>>, batch |-> FALSE],
    [entries |-> <<In("INFO", 0), In("ERROR", 0)>>, batch |-> TRUE],
    [entries |-> <<In("INFO", 0), In("INFO", 0)>>, batch |-> TRUE],
    [entries |-> <<In("INFO", 0), In("TRACE", 0)>>, batch |-> TRUE] }

Next ==
  \/ \E p \in Procs, a \in WriteApps, b \in WriteBodies :
       \/ PostLogs(p, a, b.entries, b.batch)
       \/ RpcLog(p, a, b.entries, b.batch)
  \/ \E p \in Procs : PostLogsStats(p) \/ RpcStats(p) \/ Return(p)

Spec == Init /\ [][Next]_vars

\* ------------------------------------------- one tenant's store over time
\* StoreSpec follows one client
StoreProcs == {1}

\* the timestamps the callers prune before
PruneTimes == 1..(MaxTime + 1)

StoreBodies ==
  { [entries |-> <<In("INFO", 0)>>, batch |-> FALSE],
    [entries |-> <<In("ERROR", 1)>>, batch |-> FALSE] }

StoreNext ==
  \/ Tick
  \/ \E p \in StoreProcs, a \in WriteApps, b \in StoreBodies :
       \/ PostLogs(p, a, b.entries, b.batch)
       \/ RpcLog(p, a, b.entries, b.batch)
  \/ \E p \in StoreProcs : PostLogsStats(p) \/ Return(p)
  \/ \E a \in WriteApps, b \in WriteApps, t \in PruneTimes \cup {0, -1} :
       PostPrune(a, b, t)

\* a deployment without LOGS_KV (README, step 4: the namespace is created
\* after the first deploy): log and logBatch return without an increment
StoreInit == Init /\ ~kvConfigured

StoreSpec == StoreInit /\ [][StoreNext]_vars

\* ------------------------------------------- batches and their increments
\* BatchSpec follows one client writing to either tenant
BatchBodies ==
  { [entries |-> <<In("WARN", 0)>>, batch |-> FALSE],
    [entries |-> <<In("WARN", 0)>>, batch |-> TRUE],
    [entries |-> <<In("INFO", 0), In("ERROR", 0), In("INFO", 0)>>, batch |-> TRUE],
    [entries |-> <<In("ERROR", 0), In("ERROR", 0), In("DEBUG", 0), In("ERROR", 0)>>,
     batch |-> TRUE],
    [entries |-> <<In("INFO", 0), In("TRACE", 0), In("INFO", 0)>>, batch |-> TRUE] }

BatchNext ==
  \/ \E p \in StoreProcs, a \in WriteApps, b \in BatchBodies :
       \/ PostLogs(p, a, b.entries, b.batch)
       \/ RpcLog(p, a, b.entries, b.batch)
  \/ \E p \in StoreProcs : PostLogsStats(p) \/ RpcStats(p) \/ Return(p)

BatchSpec == Init /\ [][BatchNext]_vars

\* ------------------------------------------- the all-tenants GET /logs
\* the query string of the request: a parameter is <<>> when absent, else
\* <<value>>; level "" and since/until 0 are absent
UrlParams(limit, offset) == [NoParams EXCEPT !.limit = limit, !.offset = offset]

\* what the actor reads from a query string
ToFilters(params) ==
  [level |-> params.level, since |-> params.since, until |-> params.until,
   request_id |-> params.request_id,
   limit |-> IF params.limit = <<>> THEN 0 ELSE params.limit[1],
   offset |-> IF params.offset = <<>> THEN 0 ELSE params.offset[1]]

\* limit of the merged page when the caller gives none
DefaultGlobalLimit == 100

\* smallest page asked of a tenant
MinPerAppLimit == 10

GlobalLimit_default(params) == DefaultGlobalLimit

\* url.searchParams.has('limit') ? parseInt(url.searchParams.get('limit'), 10) : 100
GlobalLimit(params) ==
  IF params.limit # <<>> THEN params.limit[1] ELSE DefaultGlobalLimit

\* Math.ceil(x / y) of integers, y > 0
Ceil(x, y) == (x + y - 1) \div y

perAppLimit_floor(globalLimit, n) == Max(MinPerAppLimit, globalLimit \div n)

\* Math.max(10, Math.ceil(globalLimit / appIds.length))
perAppLimit(globalLimit, n) == Max(MinPerAppLimit, Ceil(globalLimit, n))

perAppParams_limitOnly(params, limit) == [NoParams EXCEPT !.limit = <<limit>>]

\* perAppParams: the caller's query string with limit set and offset deleted
perAppParams(params, limit) == [params EXCEPT !.limit = <<limit>>, !.offset = <<>>]

Tag_entryWins(entry, id) == entry @@ [app_id |-> id]

\* { ...entry, app_id: id }
Tag(entry, id) == [app_id |-> id] @@ entry

\* what one tenant's promise resolves to: its tagged page when the answer is
\* ok with a list, [] when the fetch threw, the answer is not ok or its data
\* is no list; threw tells whether the promise rejects
Contribution_noCatch(outcome, page, id) ==
  [threw |-> outcome = "throw",
   entries |-> IF outcome = "ok" THEN [k \in DOMAIN page |-> Tag(page[k], id)] ELSE <<>>]

Contribution(outcome, page, id) ==
  [threw |-> FALSE,
   entries |-> IF outcome = "ok" THEN [k \in DOMAIN page |-> Tag(page[k], id)] ELSE <<>>]

\* results.flat()
RECURSIVE Flat(_)
Flat(results) == IF results = <<>> THEN <<>> ELSE Head(results) \o Flat(Tail(results))

\* merged.slice(0, globalLimit), globalLimit >= 0
Slice(s, n) == SubSeq(s, 1, Min(Len(s), n))

Merge_noSort(results, globalLimit) == Slice(Flat(results), globalLimit)

\* flat, sort by timestamp descending (Array.prototype.sort is stable), slice
Merge(results, globalLimit) == Slice(SortDesc(Flat(results)), globalLimit)

GetLogsAll_listErrorAsEmpty(params, listOk) ==
  /\ agg.pc = "idle"
  /\ agg' =
       IF ~kvConfigured
       THEN [AggIdle EXCEPT !.pc = "done", !.params = params, !.status = 500]
       ELSE IF registry = <<>> \/ ~listOk
       THEN [AggIdle EXCEPT !.pc = "done", !.params = params, !.status = 200]
       ELSE [AggIdle EXCEPT
               !.pc = "fanout", !.params = params,
               !.globalLimit = GlobalLimit(params),
               !.query = perAppParams(params,
                            perAppLimit(GlobalLimit(params), Len(registry))),
               !.appIds = registry,
               !.settled = [i \in DOMAIN registry |-> "pending"],
               !.results = [i \in DOMAIN registry |-> <<>>]]
  /\ UNCHANGED <<logs, doStats, kvStats, kvConfigured, now, nextId, issued, procs,
                 accepted, registry, healthVars>>

\* app.get('/logs') without an app id, up to the start of Promise.all;
\* listOk is the answer of registry.listApps
GetLogsAll(params, listOk) ==
  /\ agg.pc = "idle"
  /\ agg' =
       IF ~kvConfigured \/ ~listOk
       THEN [AggIdle EXCEPT !.pc = "done", !.params = params, !.status = 500]
       ELSE IF registry = <<>>
       THEN [AggIdle EXCEPT !.pc = "done", !.params = params, !.status = 200]
       ELSE [AggIdle EXCEPT
               !.pc = "fanout", !.params = params,
               !.globalLimit = GlobalLimit(params),
               !.query = perAppParams(params,
                            perAppLimit(GlobalLimit(params), Len(registry))),
               !.appIds = registry,
               !.settled = [i \in DOMAIN registry |-> "pending"],
               !.results = [i \in DOMAIN registry |-> <<>>]]
  /\ UNCHANGED <<logs, doStats, kvStats, kvConfigured, now, nextId, issued, procs,
                 accepted, registry, healthVars>>

\* one tenant's fetch settles: the actor answers, or the call fails
TenantSettles(i, outcome) ==
  /\ agg.pc = "fanout"
  /\ i \in DOMAIN agg.settled
  /\ agg.settled[i] = "pending"
  /\ LET id == agg.appIds[i]
         page == queryLogs(logs[utilsGetAppDO(id)], ToFilters(agg.query))
         c == Contribution(outcome, page, id)
     IN  agg' = [agg EXCEPT !.settled[i] = outcome, !.results[i] = c.entries,
                            !.threw = @ \/ c.threw]
  /\ UNCHANGED <<logs, doStats, kvStats, kvConfigured, now, nextId, issued, procs,
                 accepted, registry, healthVars>>

\* one tenant's actor never answers; the fetch carries no timeout
TenantHangs(i) ==
  /\ agg.pc = "fanout"
  /\ i \in DOMAIN agg.settled
  /\ agg.settled[i] = "pending"
  /\ agg' = [agg EXCEPT !.settled[i] = "hung"]
  /\ UNCHANGED <<logs, doStats, kvStats, kvConfigured, now, nextId, issued, procs,
                 accepted, registry, healthVars>>

\* Promise.all has settled: merge, sort, slice, answer
MergeResults ==
  /\ agg.pc = "fanout"
  /\ \A i \in DOMAIN agg.settled : agg.settled[i] \notin {"pending", "hung"}
  /\ agg' = IF agg.threw
            THEN [agg EXCEPT !.pc = "done", !.status = 500]
            ELSE [agg EXCEPT !.pc = "done", !.status = 200,
                             !.data = Merge(agg.results, agg.globalLimit)]
  /\ UNCHANGED <<logs, doStats, kvStats, kvConfigured, now, nextId, issued, procs,
                 accepted, registry, healthVars>>

\* a store of one tenant: one INFO row per timestamp of the list, in this
\* order, written by requests r1 and r2 in turn
StoreOf(a, stamps) ==
  [k \in DOMAIN stamps |->
     [id |-> k, timestamp |-> stamps[k], level |-> "INFO",
      request_id |-> IF k % 2 = 1 THEN "r1" ELSE "r2", dest |-> a,
      rid |-> <<k, 1>>, at |-> stamps[k]]]

\* the stores, registries and limits the all-tenants query is run on
Stamps == {<<>>, <<2>>, <<1, 3>>, <<3, 1, 2>>, [k \in 1..11 |-> k]}
Registries == {<<>>, <<"a">>, <<"a", "b">>, <<"b", "a", "c">>}
Outcomes == {"ok", "throw", "notok", "notlist"}
AggLimits == {<<>>, <<0>>, <<1>>, <<2>>, <<4>>, <<12>>, <<21>>, <<31>>}

AggInit ==
  /\ \E sa \in Stamps, sb \in Stamps, sc \in {<<>>, <<2>>} :
       logs = (idFromName("a") :> StoreOf("a", sa)) @@
              (idFromName("b") :> StoreOf("b", sb)) @@
              (idFromName("c") :> StoreOf("c", sc))
  /\ doStats = [d \in Actors |-> ZeroStats]
  /\ kvStats = [a \in Apps |-> ZeroStats]
  /\ kvConfigured \in BOOLEAN
  /\ now = 1
  /\ nextId = 1
  /\ issued = 0
  /\ procs = [p \in Procs |-> Idle]
  /\ accepted = [a \in Apps |-> ZeroStats]
  /\ registry \in Registries
  /\ agg = AggIdle
  /\ sched = [d \in Actors |-> NoSched]
  /\ health = [d \in Actors |-> <<>>]

AggNext ==
  \/ \E limit \in AggLimits, offset \in {<<>>, <<1>>}, listOk \in BOOLEAN :
       GetLogsAll(UrlParams(limit, offset), listOk)
  \/ \E i \in 1..3 : \E outcome \in Outcomes : TenantSettles(i, outcome)
  \/ \E i \in 1..3 : TenantHangs(i)
  \/ MergeResults

AggSpec == AggInit /\ [][AggNext]_vars

\* the all-tenants query on one set of stores; the handler runs on whenever
\* it can, and a fetch that is neither answered nor failed stays open
FairAggInit ==
  /\ AggInit
  /\ kvConfigured
  /\ logs[idFromName("a")] = StoreOf("a", <<1, 3>>)
  /\ logs[idFromName("b")] = StoreOf("b", <<2>>)
  /\ logs[idFromName("c")] = <<>>

FairAggNext ==
  \/ \E limit \in {<<>>, <<2>>}, listOk \in BOOLEAN :
       GetLogsAll(UrlParams(limit, <<>>), listOk)
  \/ \E i \in 1..3 : \E outcome \in Outcomes : TenantSettles(i, outcome)
  \/ \E i \in 1..3 : TenantHangs(i)
  \/ MergeResults

FairAggSpec == FairAggInit /\ [][FairAggNext]_vars /\ WF_vars(FairAggNext)

\* the all-tenants query with filters in the query string, on the stores of
\* FairAggInit
FilterParams ==
  { [limit |-> l, offset |-> o, level |-> lv, since |-> si, until |-> un,
     request_id |-> rq] :
      l \in {<<>>, <<2>>}, o \in {<<>>, <<1>>}, lv \in {"", "INFO", "ERROR"},
      si \in {0, 2}, un \in {0, 3}, rq \in {"", "r1"} }

FilterNext ==
  \/ \E params \in FilterParams, listOk \in BOOLEAN : GetLogsAll(params, listOk)
  \/ \E i \in 1..3 : \E outcome \in {"ok", "throw"} : TenantSettles(i, outcome)
  \/ MergeResults

FilterSpec == FairAggInit /\ [][FilterNext]_vars

\* the all-tenants query on stores whose rows already carry an app_id: the
\* actor answers what it stored, whatever fields the rows have
TaggedStoreOf(a, stamps, claimed) ==
  [k \in DOMAIN stamps |-> [app_id |-> claimed] @@ StoreOf(a, stamps)[k]]

TagInit ==
  /\ \E sa \in {StoreOf("a", <<1, 3>>), TaggedStoreOf("a", <<1, 3>>, "b")},
        sb \in {StoreOf("b", <<2>>), TaggedStoreOf("b", <<2>>, "a"),
                TaggedStoreOf("b", <<3, 1, 2>>, "zz")},
        sc \in {<<>>, TaggedStoreOf("c", <<2>>, "c")} :
       logs = (idFromName("a") :> sa) @@ (idFromName("b") :> sb) @@
              (idFromName("c") :> sc)
  /\ doStats = [d \in Actors |-> ZeroStats]
  /\ kvStats = [a \in Apps |-> ZeroStats]
  /\ kvConfigured = TRUE
  /\ now = 1
  /\ nextId = 1
  /\ issued = 0
  /\ procs = [p \in Procs |-> Idle]
  /\ accepted = [a \in Apps |-> ZeroStats]
  /\ registry \in Registries
  /\ agg = AggIdle
  /\ sched = [d \in Actors |-> NoSched]
  /\ health = [d \in Actors |-> <<>>]

TagNext ==
  \/ \E limit \in {<<>>, <<2>>}, listOk \in BOOLEAN :
       GetLogsAll(UrlParams(limit, <<>>), listOk)
  \/ \E i \in 1..3 : \E outcome \in {"ok", "notok"} : TenantSettles(i, outcome)
  \/ MergeResults

TagSpec == TagInit /\ [][TagNext]_vars

\* the all-tenants query on stores up to one row larger than the cap of
\* queryLogs, with filters and limits up to one above the cap
TopParams ==
  { [limit |-> l, offset |-> o, level |-> "", since |-> si, until |-> 0,
     request_id |-> rq] :
      l \in {<<>>, <<2>>, <<12>>, <<MaxLimit + 1>>}, o \in {<<>>, <<1>>},
      si \in {0, 2}, rq \in {"", "r1"} }

TopInit ==
  /\ \E sa \in {<<1, 3>>, [k \in 1..11 |-> k], [k \in 1..(MaxLimit + 1) |-> k]},
        sb \in {<<3, 1, 2>>}, sc \in {<<2>>} :
       logs = (idFromName("a") :> StoreOf("a", sa)) @@
              (idFromName("b") :> StoreOf("b", sb)) @@
              (idFromName("c") :> StoreOf("c", sc))
  /\ doStats = [d \in Actors |-> ZeroStats]
  /\ kvStats = [a \in Apps |-> ZeroStats]
  /\ kvConfigured = TRUE
  /\ now = 1
  /\ nextId = 1
  /\ issued = 0
  /\ procs = [p \in Procs |-> Idle]
  /\ accepted = [a \in Apps |-> ZeroStats]
  /\ registry \in Registries
  /\ agg = AggIdle
  /\ sched = [d \in Actors |-> NoSched]
  /\ health = [d \in Actors |-> <<>>]

TopNext ==
  \/ \E params \in TopParams, listOk \in BOOLEAN : GetLogsAll(params, listOk)
  \/ \E i \in 1..3 : \E outcome \in {"ok", "throw"} : TenantSettles(i, outcome)
  \/ MergeResults

TopSpec == TopInit /\ [][TopNext]_vars

\* ------------------------------------------- the health-check scheduler
\* the URL lists the tenants configure
UrlLists == {<<>>, <<"u1">>, <<"u1", "u2", "u3">>}

\* ticks between two health-check cycles
HealthInterval == 1

\* retries of one cycle before it is abandoned
MaxRetries == 2

\* the clock of HealthSpec stops here, and a table holds at most this many rows
MaxAlarmTime == 6
MaxHealthRows == 3

\* status of a probe without a response
Null == -1

\* how a probe ends: a response with its status code, or no response
Response(code) == [kind |-> "response", code |-> code]
NoResponse(kind) == [kind |-> kind, code |-> 0]
ProbeOutcomes == {Response(200), Response(503), NoResponse("timeout"), NoResponse("error")}

\* the HealthCheckResult of one probe
HealthRow(url, outcome, t) ==
  [url |-> url,
   status |-> IF outcome.kind = "response" THEN outcome.code ELSE Null,
   checked_at |-> t]

recordAll_firstFailureStops(rows, urls, results, t) ==
  LET bad == {i \in DOMAIN urls : results[i].kind # "response"}
      n == IF bad = {} THEN Len(urls) ELSE CHOOSE i \in bad : \A j \in bad : i <= j
  IN  rows \o [i \in 1..n |-> HealthRow(urls[i], results[i], t)]

\* recordHealthResult for every probe of the cycle, in the order of the URLs
recordAll(rows, urls, results, t) ==
  rows \o [i \in DOMAIN urls |-> HealthRow(urls[i], results[i], t)]

\* delay before retry number k: it grows with k
RetryDelay(k) == k

\* setHealthUrls: the first configuration schedules the first cycle
setHealthUrls(s, urls, t) ==
  IF urls # <<>> /\ s.due = 0
  THEN [s EXCEPT !.urls = urls, !.state = "Scheduled", !.due = t + HealthInterval]
  ELSE [s EXCEPT !.urls = urls]

reschedule_never(s, t) == [s EXCEPT !.state = "Idle", !.retryCount = 0, !.due = 0]

\* all probes completed: next alarm at the fixed interval, back to Idle
reschedule(s, t) ==
  [s EXCEPT !.state = "Idle", !.retryCount = 0, !.due = t + HealthInterval]

onRetry_unbounded(s, t) ==
  [s EXCEPT !.state = "Backoff", !.retryCount = @ + 1, !.due = t + RetryDelay(s.retryCount + 1)]

\* the scheduling mechanism signals a retry: Backoff with a longer delay, or,
\* with the retries used up, the cycle is abandoned until the next period
onRetry(s, t) ==
  IF s.retryCount < MaxRetries
  THEN [s EXCEPT !.state = "Backoff", !.retryCount = @ + 1,
                 !.due = t + RetryDelay(s.retryCount + 1)]
  ELSE [s EXCEPT !.state = "Idle", !.retryCount = 0, !.due = t + HealthInterval,
                 !.abandonedAt = t]

\* app.post('/apps/:app_id/health-urls'): 403 on an app id mismatch, 400
\* unless urls is an array, else the actor sets its URLs
PostHealthUrls(appId, authenticatedAppId, urls, isArray) ==
  /\ authenticatedAppId = "" \/ appId = authenticatedAppId
  /\ isArray
  /\ LET d == utilsGetAppDO(appId)
     IN  sched' = [sched EXCEPT ![d] = setHealthUrls(@, urls, now)]
  /\ UNCHANGED <<logs, doStats, kvStats, kvConfigured, now, nextId, issued, procs,
                 accepted, aggVars, health>>

\* time passes while the actors wait for their alarms
AlarmClock ==
  /\ now < MaxAlarmTime
  /\ now' = now + 1
  /\ UNCHANGED <<logs, doStats, kvStats, kvConfigured, nextId, issued, procs,
                 accepted, aggVars, healthVars>>

\* the alarm of actor d fires
AlarmFire(d) ==
  /\ sched[d].state \in {"Idle", "Scheduled", "Backoff"}
  /\ sched[d].due # 0
  /\ now >= sched[d].due
  /\ Len(health[d]) + Len(sched[d].urls) <= MaxHealthRows
  /\ sched' = [sched EXCEPT ![d].state = "Executing"]
  /\ UNCHANGED <<logs, doStats, kvStats, kvConfigured, now, nextId, issued, procs,
                 accepted, aggVars, health>>

\* the cycle runs: one probe per configured URL, every result recorded
AlarmRun(d, results) ==
  /\ sched[d].state = "Executing"
  /\ DOMAIN results = DOMAIN sched[d].urls
  /\ health' = [health EXCEPT ![d] = recordAll(@, sched[d].urls, results, now)]
  /\ sched' = [sched EXCEPT ![d] = reschedule(@, now)]
  /\ UNCHANGED <<logs, doStats, kvStats, kvConfigured, now, nextId, issued, procs,
                 accepted, aggVars>>

\* the alarm was not delivered: alarm({ isRetry: true, retryCount }) is due
AlarmRetry(d) ==
  /\ sched[d].state = "Executing"
  /\ sched' = [sched EXCEPT ![d] = onRetry(@, now)]
  /\ UNCHANGED <<logs, doStats, kvStats, kvConfigured, now, nextId, issued, procs,
                 accepted, aggVars, health>>

\* queryHealth without filters: checked_at descending
queryHealth(rows) ==
  LET RECURSIVE Ins(_, _)
      Ins(sorted, r) == IF sorted = <<>> THEN <<r>>
                        ELSE IF Head(sorted).checked_at >= r.checked_at
                             THEN <<Head(sorted)>> \o Ins(Tail(sorted), r)
                             ELSE <<r>> \o sorted
      RECURSIVE Srt(_)
      Srt(rs) == IF rs = <<>> THEN <<>>
                 ELSE Ins(Srt(SubSeq(rs, 1, Len(rs) - 1)), rs[Len(rs)])
  IN  Srt(rows)

\* the scheduler and the health history of a tenant
SchedOf(a) == sched[utilsGetAppDO(a)]
HealthOf(a) == health[utilsGetAppDO(a)]

\* the tenants with health URLs, and the results of the probes of a cycle: at
\* most one probe of a cycle ends other than with a 200; the tenant's client
\* writes one entry some time after a cycle was abandoned
HealthApps == {"a"}
ProbeResults(urls) ==
  {r \in [DOMAIN urls -> ProbeOutcomes] :
     Cardinality({i \in DOMAIN urls : r[i] # Response(200)}) <= 1}

HealthNext ==
  \/ AlarmClock
  \/ \E a \in HealthApps, b \in {"", "a", "b"}, urls \in UrlLists, isArray \in BOOLEAN :
       PostHealthUrls(a, b, urls, isArray)
  \/ \E a \in HealthApps : AlarmFire(utilsGetAppDO(a))
  \/ \E a \in HealthApps : \E results \in ProbeResults(sched[utilsGetAppDO(a)].urls) :
       AlarmRun(utilsGetAppDO(a), results)
  \/ \E a \in HealthApps : AlarmRetry(utilsGetAppDO(a))
  \/ \E p \in StoreProcs, a \in HealthApps :
       /\ issued = 0 /\ SchedOf(a).abandonedAt # 0
       /\ RpcLog(p, a, <<In("INFO", 0)>>, FALSE)

HealthSpec == StoreInit /\ [][HealthNext]_vars

\* ------------------------------------------------------------ properties
WriteDone(p) == procs[p].pc = "done"

\* C1: a finished write handler answered success only with both the entries
\* stored and their counters incremented, and answered a failure only with
\* neither; the entries are never stored with the increment missing.
C1_WriteAndCountTogether ==
  \A p \in Procs :
    WriteDone(p) =>
      /\ procs[p].resp = "ok" => (procs[p].stored /\ procs[p].counted)
      /\ procs[p].resp # "ok" => (~procs[p].stored /\ ~procs[p].counted)
      /\ ~(procs[p].stored /\ ~procs[p].counted)

Quiescent == \A p \in Procs : procs[p].pc \in {"idle", "done"}

\* C2: once every write has completed (here: with LOGS_KV bound and every
\* increment of the finished handlers applied), GET /stats/:app_id and RPC
\* getStats both report, for every (date, level), exactly the number of
\* entries of that level accepted on that date, whichever way the writes came in.
C2_StatsEqualAcceptedWrites ==
  (Quiescent /\ kvConfigured /\ \A p \in Procs : WriteDone(p) => procs[p].counted) =>
    \A a \in WriteApps, d \in Dates, l \in Levels :
      /\ Reported(GetStats(a, a, DefaultDays).data, d, l) = Count(accepted[a], d, l)
      /\ Reported(RpcGetStats(a, DefaultDays), d, l) = Count(accepted[a], d, l)

\* the filters the properties query with
SomeFilters ==
  { NoFilters, [NoFilters EXCEPT !.level = "INFO"], [NoFilters EXCEPT !.limit = 1] }

\* C5: a query addressed to one app id, through the gateway or the RPC
\* entrypoint, returns only rows written for that app id; both entrypoints
\* resolve an app id to the same actor and different app ids to different actors.
C5_TenantIsolation ==
  /\ \A a \in Apps, f \in SomeFilters :
       /\ \A i \in DOMAIN GetLogs(a, f).data : GetLogs(a, f).data[i].dest = a
       /\ \A i \in DOMAIN query(a, f) : query(a, f)[i].dest = a
  /\ \A a \in Apps, b \in Apps :
       /\ getAppDO(a) = utilsGetAppDO(a)
       /\ a # b => getAppDO(a) # getAppDO(b)

\* two handlers in flight for different apps, one from each entrypoint, and
\* both tenants hold rows
C5_Witness ==
  /\ procs[1].pc = "stats" /\ procs[2].pc = "stats"
  /\ procs[1].app # procs[2].app
  /\ procs[1].via # procs[2].via
  /\ \A a \in WriteApps : query(a, NoFilters) # <<>> /\ GetLogs(a, NoFilters).data # <<>>

\* the rows of a result that came with the same request as its i-th row
SameRequest(res, i) == {j \in DOMAIN res : res[j].rid = res[i].rid}

\* C6: an unfiltered query of a tenant shows, of every write request, all of
\* its entries or none: never a strict non-empty subset of a batch.
C6_BatchAllOrNothing ==
  \A a \in Apps :
    /\ \A i \in DOMAIN query(a, NoFilters) :
         Cardinality(SameRequest(query(a, NoFilters), i)) = query(a, NoFilters)[i].rid[2]
    /\ \A i \in DOMAIN GetLogs(a, NoFilters).data :
         Cardinality(SameRequest(GetLogs(a, NoFilters).data, i))
           = GetLogs(a, NoFilters).data[i].rid[2]

\* a batch of two is stored whole, and a batch with an invalid level has
\* failed leaving nothing
C6_Witness ==
  /\ \E a \in WriteApps : \E i \in DOMAIN query(a, NoFilters) :
       query(a, NoFilters)[i].rid[2] = 2
  /\ \E p \in Procs :
       /\ WriteDone(p) /\ procs[p].batch /\ Len(procs[p].entries) = 2
       /\ procs[p].resp \in {"err", "undefined"} /\ ~procs[p].stored

Pos(res, id) == CHOOSE k \in DOMAIN res : res[k].id = id

InOrder(a, b) ==
  \A k \in DOMAIN a, m \in DOMAIN a : k < m => Pos(b, a[k].id) < Pos(b, a[m].id)

\* C8: a prune with before = T deletes from the tenant's store exactly the
\* entries with timestamp < T, and pruning again with the same T deletes
\* nothing and leaves the store as it is.
C8_PruneRemovesOlderOnly ==
  [][\A a \in WriteApps, T \in PruneTimes :
       PostPrune(a, a, T) =>
         LET d == utilsGetAppDO(a)
         IN  /\ \A i \in DOMAIN logs[d] :
                  (logs[d][i].timestamp >= T) <=> (\E k \in DOMAIN logs'[d] : logs'[d][k] = logs[d][i])
             /\ \A k \in DOMAIN logs'[d] : \E i \in DOMAIN logs[d] : logs[d][i] = logs'[d][k]
             /\ InOrder(logs'[d], logs[d])
             /\ \A e \in Actors : e # d => logs'[e] = logs[e]
             /\ pruneLogs(logs'[d], T) = logs'[d]
             /\ Len(logs'[d]) - Len(pruneLogs(logs'[d], T)) = 0]_vars

Total(st) == IF DOMAIN st = {} THEN 0
             ELSE LET RECURSIVE Sum(_)
                      Sum(S) == IF S = {} THEN 0
                                ELSE LET e == CHOOSE x \in S : TRUE
                                     IN  st[e] + Sum(S \ {e})
                  IN  Sum(DOMAIN st)

\* a tenant that lost entries to a prune and kept others
C8_Witness ==
  \E a \in WriteApps :
    /\ logs[utilsGetAppDO(a)] # <<>>
    /\ Total(accepted[a]) > Len(logs[utilsGetAppDO(a)])

\* the all-tenants request went through its fan-out and was answered
Answered == agg.pc = "done" /\ agg.appIds # <<>>

Failed(i) == agg.settled[i] \in {"throw", "notok", "notlist"}

\* the page tenant i of the fan-out holds for the query sent to it, tagged
PageOf(i) ==
  LET page == queryLogs(logs[utilsGetAppDO(agg.appIds[i])], ToFilters(agg.query))
  IN  [k \in DOMAIN page |-> Tag(page[k], agg.appIds[i])]

\* C3: whichever tenants' queries fail (throw, not ok, no list), the
\* all-tenants request succeeds, and its result is the one it would have had
\* if each failed tenant had returned an empty list.
C3_FailedTenantsCountAsEmpty ==
  Answered =>
    /\ agg.status = 200
    /\ agg.data = Merge([i \in DOMAIN agg.appIds |->
                           IF Failed(i) THEN <<>> ELSE PageOf(i)], agg.globalLimit)

\* a tenant with entries failed, another answered, and the request returned
\* the other's entries
C3_Witness ==
  /\ Answered /\ agg.status = 200 /\ agg.data # <<>>
  /\ \E i \in DOMAIN agg.appIds : Failed(i) /\ PageOf(i) # <<>>
  /\ \E i \in DOMAIN agg.appIds : agg.settled[i] = "throw"

\* C4: the all-tenants request is answered in the end, also when a tenant's
\* actor never responds.
C4_AggregateReturns == (agg.pc = "fanout") ~> (agg.pc = "done")

\* C9: for a global limit g >= 1 (100 when none is given) and n tenants, the
\* limit L of the query sent to every tenant is max(10, ceil(g / n)): the
\* least L >= 10 with L * n >= g.
C9_PerAppLimit ==
  (agg.pc \in {"fanout", "done"} /\ agg.appIds # <<>> /\ agg.globalLimit >= 1) =>
    LET L == agg.query.limit[1]
        n == Len(agg.appIds)
        g == agg.globalLimit
    IN  /\ g = IF agg.params.limit = <<>> THEN 100 ELSE agg.params.limit[1]
        /\ L >= 10
        /\ L * n >= g
        /\ L > 10 => (L - 1) * n < g
        /\ agg.query.offset = <<>>

\* three tenants and a global limit of 31: every tenant is asked for 11
C9_Witness ==
  /\ agg.pc = "fanout" /\ Len(agg.appIds) = 3
  /\ agg.globalLimit = 31 /\ agg.query.limit = <<11>>

\* the entries the tenants returned, in the order of the registry list
Returned == Flat(agg.results)

\* C10: the answer of the all-tenants query is ordered by non-increasing
\* timestamp, consists of entries the tenants returned, each at most once, has
\* exactly min(global_limit, entries returned) entries, and leaves out no
\* returned entry newer than one it holds.
C10_MergedNewestFirst ==
  (Answered /\ agg.status = 200) =>
    /\ \A k \in DOMAIN agg.data, m \in DOMAIN agg.data :
         k < m => /\ agg.data[k].timestamp >= agg.data[m].timestamp
                  /\ agg.data[k] # agg.data[m]
    /\ \A k \in DOMAIN agg.data : \E j \in DOMAIN Returned : Returned[j] = agg.data[k]
    /\ Len(agg.data) = Min(agg.globalLimit, Len(Returned))
    /\ \A j \in DOMAIN Returned :
         (\A k \in DOMAIN agg.data : agg.data[k] # Returned[j]) =>
            \A k \in DOMAIN agg.data : agg.data[k].timestamp >= Returned[j].timestamp

\* two tenants returned entries, more than the global limit together, and the
\* answer holds entries of both
C10_Witness ==
  /\ Answered /\ agg.status = 200
  /\ Len(Returned) > agg.globalLimit /\ agg.globalLimit >= 2
  /\ \E k \in DOMAIN agg.data, m \in DOMAIN agg.data :
       k < m /\ agg.data[k].app_id # agg.data[m].app_id
             /\ agg.data[k].app_id # agg.appIds[1]

Counted(a, d, l) == Count(doStats[utilsGetAppDO(a)], d, l) + Count(kvStats[a], d, l)

\* C14: when two concurrent writes to one tenant, single or batch, through
\* either entrypoint, have both completed and stored their entries, the
\* counters of every (date, level) have grown by exactly the number of
\* accepted entries of that level: no increment is lost.
C14_NoIncrementLost ==
  ((\A p \in Procs : WriteDone(p) /\ procs[p].stored) /\ procs[1].app = procs[2].app) =>
    \A d \in Dates, l \in Levels :
      Counted(procs[1].app, d, l) = Count(accepted[procs[1].app], d, l)

\* C15: the counters of a tenant change only inside its storage actor: no
\* step of a write path changes counters kept outside the actor (LOGS_KV).
C15_CountersOnlyInActor == [][kvStats' = kvStats]_vars

\* C16: a finished write, single or batch, that the storage actor rejected
\* hands the actor's error to its caller, on the gateway route and on the RPC
\* method alike.
C16_ActorErrorReachesCaller ==
  \A p \in Procs :
    (WriteDone(p) /\ ~ValidEntries(procs[p].entries)) => procs[p].resp = "err"

\* C19: a single write whose level is outside DEBUG, INFO, WARN, ERROR ends
\* with a validation error returned to the caller, no entry persisted and no
\* counter incremented; every persisted entry has a level of the enum.
C19_InvalidLevelRejected ==
  /\ \A p \in Procs :
       (WriteDone(p) /\ ~procs[p].batch /\ procs[p].entries[1].level \notin Levels) =>
         /\ procs[p].resp = "err"
         /\ ~procs[p].stored /\ ~procs[p].counted
  /\ \A a \in Apps, d \in Dates :
       /\ \A i \in DOMAIN logs[getAppDO(a)] : logs[getAppDO(a)][i].level \in Levels
       /\ Counted(a, d, "TRACE") = 0

\* ------------------------------------------- properties of the registry read
\* C17: the all-tenants request fails exactly when the registry cannot be
\* read: without LOGS_KV or with a failed listApps it answers an error and
\* queries no actor; with an empty list it answers an empty result and queries
\* no actor; otherwise it queries the listed apps, and once they have
\* answered, whatever they answered, the request succeeds.
C17_FailsOnlyOnRegistry ==
  /\ [][\A limit \in AggLimits, offset \in {<<>>, <<1>>}, listOk \in BOOLEAN :
          GetLogsAll(UrlParams(limit, offset), listOk) =>
            IF ~kvConfigured \/ ~listOk
            THEN /\ agg'.pc = "done" /\ agg'.status = 500
                 /\ agg'.settled = <<>> /\ agg'.data = <<>>
            ELSE IF registry = <<>>
            THEN /\ agg'.pc = "done" /\ agg'.status = 200
                 /\ agg'.settled = <<>> /\ agg'.data = <<>>
            ELSE /\ agg'.pc = "fanout" /\ agg'.appIds = registry
                 /\ DOMAIN agg'.settled = DOMAIN registry]_vars
  /\ []((agg.pc = "done" /\ agg.settled # <<>>) => agg.status = 200)
  /\ []((agg.pc = "done" /\ agg.status # 200) => (agg.status = 500 /\ agg.settled = <<>>))

\* listApps failed although LOGS_KV is bound and tenants with entries are
\* registered: the request answered an error without a fan-out
C17_Witness ==
  /\ agg.pc = "done" /\ agg.status = 500 /\ agg.settled = <<>>
  /\ kvConfigured /\ Len(registry) >= 2
  /\ \A i \in DOMAIN registry : logs[utilsGetAppDO(registry[i])] # <<>>

\* ------------------------------------------- properties of the prune input
\* the error codes of a validation failure
ValidationCodes == {"BAD_REQUEST", "VALIDATION_ERROR"}

\* C18: a prune whose "before" is absent or does not parse as a timestamp is
\* answered with a validation error and deletes no entry of the tenant.
C18_BadBeforeDeletesNothing ==
  /\ [](\A a \in WriteApps, before \in {0, -1} :
          /\ ~PruneAnswer(a, a, before).ok
          /\ PruneAnswer(a, a, before).code \in ValidationCodes
          /\ PruneAnswer(a, a, before).deleted = 0)
  /\ [][\A a \in WriteApps, before \in {0, -1} :
          PostPrune(a, a, before) => logs' = logs]_vars

\* a tenant holds entries that a prune with a valid "before" would delete,
\* and a prune with an unparsable "before" is refused
C18_Witness ==
  \E a \in WriteApps :
    /\ PruneAnswer(a, a, MaxTime + 1).ok /\ PruneAnswer(a, a, MaxTime + 1).deleted >= 2
    /\ ~PruneAnswer(a, a, -1).ok /\ ~PruneAnswer(a, a, 0).ok

\* ------------------------------------------- properties of the fan-out query
\* C20: the query sent to the tenants carries the caller's level, since,
\* until and request_id unchanged, its limit is the per-app limit and it has
\* no offset; the fan-out holds one fetch per app id of the registry list,
\* each settles once, and an answering tenant contributes the page its
\* store gives for exactly these filters.
C20_FiltersPassedOncePerTenant ==
  /\ []((agg.pc \in {"fanout", "done"} /\ agg.settled # <<>>) =>
          /\ agg.query.level = agg.params.level
          /\ agg.query.since = agg.params.since
          /\ agg.query.until = agg.params.until
          /\ agg.query.request_id = agg.params.request_id
          /\ agg.query.limit = <<perAppLimit(agg.globalLimit, Len(agg.appIds))>>
          /\ agg.query.offset = <<>>
          /\ agg.appIds = registry
          /\ DOMAIN agg.settled = DOMAIN agg.appIds)
  /\ [][\A i \in 1..3, outcome \in {"ok", "throw"} :
          TenantSettles(i, outcome) =>
            /\ agg.settled[i] = "pending" /\ agg'.settled[i] = outcome
            /\ \A j \in DOMAIN agg.settled : j # i => agg'.settled[j] = agg.settled[j]
            /\ outcome = "ok" =>
                 LET want == [level |-> agg.params.level, since |-> agg.params.since,
                              until |-> agg.params.until,
                              request_id |-> agg.params.request_id,
                              limit |-> perAppLimit(agg.globalLimit, Len(agg.appIds)),
                              offset |-> 0]
                     page == queryLogs(logs[utilsGetAppDO(agg.appIds[i])], want)
                 IN  agg'.results[i] = [k \in DOMAIN page |-> Tag(page[k], agg.appIds[i])]]_vars

\* a request with since, request_id and offset given: every tenant was asked
\* once, and the answer holds only entries of that request_id, not older than since
C20_Witness ==
  /\ agg.pc = "done" /\ Len(agg.settled) = 3
  /\ agg.params.request_id = "r1" /\ agg.params.since = 2 /\ agg.params.offset = <<1>>
  /\ agg.data # <<>>
  /\ \A k \in DOMAIN agg.data : agg.data[k].request_id = "r1" /\ agg.data[k].timestamp >= 2

\* C21: every entry of the all-tenants answer, and of every tenant's
\* contribution to it, carries the app_id of the tenant whose actor returned
\* it, also when the row the actor returned had an app_id of its own.
C21_TaggedWithSource ==
  /\ agg.pc \in {"fanout", "done"} =>
       \A i \in DOMAIN agg.results : \A k \in DOMAIN agg.results[i] :
          /\ agg.results[i][k].app_id = agg.appIds[i]
          /\ \E j \in DOMAIN logs[utilsGetAppDO(agg.appIds[i])] :
               LET row == logs[utilsGetAppDO(agg.appIds[i])][j]
               IN  /\ row.id = agg.results[i][k].id
                   /\ row.timestamp = agg.results[i][k].timestamp
                   /\ row.dest = agg.results[i][k].dest
  /\ (Answered /\ agg.status = 200) =>
       \A k \in DOMAIN agg.data :
          /\ agg.data[k].app_id = agg.data[k].dest
          /\ \E i \in DOMAIN agg.appIds :
               /\ agg.appIds[i] = agg.data[k].app_id
               /\ \E m \in DOMAIN agg.results[i] : agg.results[i][m] = agg.data[k]

\* the answer holds an entry of tenant b whose stored row named another app
C21_Witness ==
  /\ Answered /\ agg.status = 200
  /\ \E k \in DOMAIN agg.data :
       /\ agg.data[k].app_id = "b"
       /\ \E j \in DOMAIN logs[idFromName("b")] :
            /\ logs[idFromName("b")][j].id = agg.data[k].id
            /\ "app_id" \in DOMAIN logs[idFromName("b")][j]
            /\ logs[idFromName("b")][j].app_id # "b"

\* ------------------------------------------- properties of the increments
RECURSIVE SumCounts(_)
SumCounts(counts) ==
  IF counts = <<>> THEN 0 ELSE Head(counts).count + SumCounts(Tail(counts))

\* the handler of p has answered a batch the actor accepted
BatchAccepted(p) ==
  /\ procs[p].pc = "done" /\ procs[p].batch
  /\ ValidEntries(procs[p].entries)

\* the counts hold one item per level of the entries, with that level's number
\* of entries, and sum to the number of entries
CountsOf(counts, entries) ==
  /\ \A i \in DOMAIN counts, j \in DOMAIN counts :
       counts[i].level = counts[j].level => i = j
  /\ {counts[i].level : i \in DOMAIN counts} =
       {entries[i].level : i \in DOMAIN entries}
  /\ \A i \in DOMAIN counts : counts[i].count = CountLevel(entries, counts[i].level)
  /\ SumCounts(counts) = Len(entries)

\* every increment a handler issues carries counts that hold one item per
\* level of its entries; a handler issues at most one, none for a write the
\* actor rejected, and one for a batch accepted through the gateway or with
\* LOGS_KV bound
BatchCountsRight ==
  \A p \in Procs :
    /\ Len(procs[p].ops) <= 1
    /\ \A k \in DOMAIN procs[p].ops : CountsOf(procs[p].ops[k], procs[p].entries)
    /\ (BatchAccepted(p) /\ (procs[p].via = "gateway" \/ kvConfigured)) =>
         Len(procs[p].ops) = 1
    /\ ~ValidEntries(procs[p].entries) => procs[p].ops = <<>>

\* C22: the counts sent with the increment of a batch hold exactly one item
\* per level of the batch, each with that level's number of entries, and sum
\* to the batch size; every accepted batch has one increment operation, not
\* one per entry.
C22_OneIncrementPerBatch ==
  /\ BatchCountsRight
  /\ \A p \in Procs : BatchAccepted(p) => Len(procs[p].ops) = 1

\* the counters of level l, over all dates
LevelTotal(st, l) ==
  Total([e \in {x \in DOMAIN st : x[2] = l} |-> st[e]])

\* C23: an increment is issued only for a write the actor acknowledged as
\* ok, after the acknowledgement; so for every tenant and level the counters
\* of that level, in the actor and in LOGS_KV, sum to at most the number of
\* entries of that level the actor has accepted.
C23_CountersNeverLead ==
  /\ [](\A a \in Apps, l \in Levels \cup {"TRACE"} :
          LevelTotal(doStats[utilsGetAppDO(a)], l) + LevelTotal(kvStats[a], l)
            <= LevelTotal(accepted[a], l))
  /\ [](\A p \in Procs :
          (procs[p].pc = "stats" \/ procs[p].ops # <<>>) =>
             ValidEntries(procs[p].entries) /\ procs[p].stored)
  /\ [][\A a \in Apps :
          (doStats'[utilsGetAppDO(a)] # doStats[utilsGetAppDO(a)]
             \/ kvStats'[a] # kvStats[a]) =>
            \E p \in Procs :
               /\ procs[p].pc = "stats" /\ procs[p].app = a /\ procs[p].stored
               /\ procs'[p].pc = "done" /\ procs'[p].counted]_vars

\* a batch the actor rejected left no counter although it held an INFO
\* entry, and an accepted batch of the same tenant was counted after its rows
\* were stored: the counters have caught up with the accepted entries
C23_Witness ==
  /\ \E p \in Procs :
       /\ procs[p].pc = "done" /\ procs[p].resp = "err" /\ procs[p].app = "a"
       /\ procs[p].entries = <<In("INFO", 0), In("TRACE", 0)>>
       /\ procs[p].ops = <<>>
  /\ \E p \in Procs :
       /\ procs[p].pc = "done" /\ procs[p].app = "a"
       /\ procs[p].stored /\ procs[p].counted
       /\ procs[p].entries = <<In("INFO", 0), In("INFO", 0)>>
  /\ LevelTotal(accepted["a"], "INFO") = 2
  /\ LevelTotal(doStats[utilsGetAppDO("a")], "INFO") + LevelTotal(kvStats["a"], "INFO") = 2
  /\ LevelTotal(doStats[utilsGetAppDO("a")], "TRACE") = 0

\* ------------------------------------------- properties of the merged view
\* the rows of tenant i of the fan-out that match the caller's filters, tagged
MatchingOf(i) ==
  LET rows == SelectSeq(logs[utilsGetAppDO(agg.appIds[i])],
                        LAMBDA r : Matches(r, ToFilters(agg.params)))
  IN  [k \in DOMAIN rows |-> Tag(rows[k], agg.appIds[i])]

\* the global limit the caller asked for, and the limit sent to each tenant
AskedLimit == IF agg.params.limit = <<>> THEN 100 ELSE agg.params.limit[1]
AskedPerApp == Max(10, Ceil(AskedLimit, Len(agg.appIds)))

\* every tenant of the fan-out answered, and none holds more matching
\* entries than the per-app limit
AllAnsweredWithinLimit ==
  /\ Answered /\ agg.status = 200
  /\ \A i \in DOMAIN agg.appIds :
       agg.settled[i] = "ok" /\ Len(MatchingOf(i)) <= AskedPerApp

\* the answer is the AskedLimit most recent matching entries of the tenants
MostRecentMatching ==
  LET all == Flat([i \in DOMAIN agg.appIds |-> MatchingOf(i)])
  IN  /\ Len(agg.data) = Min(AskedLimit, Len(all))
      /\ \A k \in DOMAIN agg.data : \E j \in DOMAIN all : all[j] = agg.data[k]
      /\ \A k \in DOMAIN agg.data, m \in DOMAIN agg.data :
           k < m => /\ agg.data[k].timestamp >= agg.data[m].timestamp
                    /\ agg.data[k] # agg.data[m]
      /\ \A j \in DOMAIN all :
           (\A k \in DOMAIN agg.data : agg.data[k] # all[j]) =>
              \A k \in DOMAIN agg.data : agg.data[k].timestamp >= all[j].timestamp

\* C24 as stated: when every per-tenant query succeeds and every tenant
\* holds at most per_app_limit matching entries, the all-tenants answer is
\* exactly the global_limit most recent matching entries of the registered
\* tenants.
C24_ExactlyMostRecent == AllAnsweredWithinLimit => MostRecentMatching

\* C24 (amended): the same, when the per-app limit does not exceed the cap
\* queryLogs puts on a limit.
C24_MostRecentWithinCap ==
  (AllAnsweredWithinLimit /\ AskedPerApp <= MaxLimit) => MostRecentMatching

\* three tenants answered a query with since given and limit 2, hold more
\* matching entries than that together, and the answer holds the newest
\* entries of two of them
C24_Witness ==
  /\ AllAnsweredWithinLimit /\ AskedPerApp <= MaxLimit
  /\ Len(agg.appIds) = 3 /\ agg.params.limit = <<2>> /\ agg.params.since = 2
  /\ Len(Flat([i \in DOMAIN agg.appIds |-> MatchingOf(i)])) > 2
  /\ Len(agg.data) = 2 /\ agg.data[1].app_id # agg.data[2].app_id
  /\ \E i \in DOMAIN agg.appIds : Len(MatchingOf(i)) = 2
====
